---- MODULE Spec2Model ----
(***************************************************************************)
(* Model of the TechSnakeGame component (src/unnamed/part_000).            *)
(*                                                                         *)
(* The component keeps its game state in React state cells and two refs.   *)
(* Its handlers are closures: the frame callback moveSnake captures food,  *)
(* gameOver, nextDirection and speed of the render that created it, the    *)
(* key listener and the on-screen buttons capture direction.  A state      *)
(* update made by a handler is visible to the handlers only after React    *)
(* has rendered again and run the effects (lines 103-137).                 *)
(*                                                                         *)
(* Scheduling: updates made in a key, click or reset handler are discrete  *)
(* events, rendered before the handler's task ends, so those actions       *)
(* include the render.  Updates made inside the animation-frame callback   *)
(* are rendered in a later task: action Render.  An input event may be     *)
(* delivered in between; the next animation frame is delivered after it.   *)
(***************************************************************************)
EXTENDS Integers, Sequences, FiniteSets

VARIABLES
    snake,            \* useState snake, head first            (line 12)
    food,             \* useState food                         (line 13)
    direction,        \* useState direction (committed)        (line 14)
    nextDirection,    \* useState nextDirection (pending)      (line 15)
    gameOver,         \* useState gameOver                     (line 16)
    score,            \* useState score                        (line 17)
    speed,            \* useState speed (tick interval)        (line 18)
    lastUpdateTime,   \* useRef lastUpdateTime, 0 = unset      (line 21)
    frames,           \* animation-frame callbacks registered with the browser
    keyListeners,     \* keydown listeners registered on window
    rendered,         \* the values the last render's closures captured
    foodFresh,        \* setFood stored a new object since the last render
    mounted,          \* the component is mounted
    now,              \* timestamp of the latest frame signal
    baseline,         \* the scheduler baseline as the specification defines it
    ev,               \* the operation that produced this state
    steps,            \* timestamps of the latest two steps taken
    keys,             \* direction requests made so far
    resets            \* resets made so far

vars == <<snake, food, direction, nextDirection, gameOver, score, speed,
          lastUpdateTime, frames, keyListeners, rendered, foodFresh, mounted,
          now, baseline, ev, steps, keys, resets>>

game == <<snake, food, direction, nextDirection, gameOver, score, speed>>

----------------------------------------------------------------------------
(* Program constants *)

GRID_SIZE == 20

INITIAL_SPEED == 150

Direction == {"UP", "DOWN", "LEFT", "RIGHT"}

(* Bounds of the model *)

MaxTicks == 11

MaxKeys == 2

MaxResets == 1

(* Timestamp of the late-game state InitLate, and the ticks after it. *)
LateStart == 6000

LateTicks == 4

(* Frame timestamps the environment may deliver: 0, 100, 160 and then one *)
(* every 150 time units; and one every 150 from LateStart on.             *)
TimeStamps ==
    {0, 100, 160} \cup {160 + 150 * k : k \in 1..MaxTicks}
        \cup {LateStart + 150 * k : k \in 0..LateTicks}

(* A frame signal is at most this far after the previous one. *)
MaxGap == 300

(* Cells generateFood may return in the model. *)
FoodCells == {[x |-> 11, y |-> 10], [x |-> 12, y |-> 10], [x |-> 10, y |-> 10]}

----------------------------------------------------------------------------
(* Pure helpers *)

Pos(px, py) == [x |-> px, y |-> py]

Opposite(d) ==
    CASE d = "UP" -> "DOWN"
      [] d = "DOWN" -> "UP"
      [] d = "LEFT" -> "RIGHT"
      [] d = "RIGHT" -> "LEFT"

(* faulty variant: NewHead with DOWN moving two cells *)
NewHeadJump(h, d) ==
    CASE d = "UP" -> Pos(h.x, h.y - 1)
      [] d = "DOWN" -> Pos(h.x, h.y + 2)
      [] d = "LEFT" -> Pos(h.x - 1, h.y)
      [] d = "RIGHT" -> Pos(h.x + 1, h.y)

(* faulty variant: NewHead with LEFT moving right *)
NewHeadOff(h, d) ==
    CASE d = "UP" -> Pos(h.x, h.y - 1)
      [] d = "DOWN" -> Pos(h.x, h.y + 1)
      [] d = "LEFT" -> Pos(h.x + 1, h.y)
      [] d = "RIGHT" -> Pos(h.x + 1, h.y)

(* lines 57-65: the head offset by one cell in direction d *)
NewHead(h, d) ==
    CASE d = "UP" -> Pos(h.x, h.y - 1)
      [] d = "DOWN" -> Pos(h.x, h.y + 1)
      [] d = "LEFT" -> Pos(h.x - 1, h.y)
      [] d = "RIGHT" -> Pos(h.x + 1, h.y)

(* faulty variant: HitsWall without the upper bounds *)
HitsWallLowOnly(h) == h.x < 0 \/ h.y < 0

(* faulty variant: HitsWall with > for >= *)
HitsWallOffByOne(h) == h.x < 0 \/ h.x > GRID_SIZE \/ h.y < 0 \/ h.y > GRID_SIZE

(* lines 68-71 *)
HitsWall(h) == h.x < 0 \/ h.x >= GRID_SIZE \/ h.y < 0 \/ h.y >= GRID_SIZE

(* faulty variant: HitsSelf that leaves out the last segment *)
HitsSelfSkipTail(s, h) == \E i \in 1..(Len(s) - 1) : s[i] = h

(* line 77: prevSnake.some(segment => segment equals head) *)
HitsSelf(s, h) == \E i \in 1..Len(s) : s[i] = h

(* line 82: [head, ...prevSnake] *)
Prepend(h, s) == <<h>> \o s

(* faulty variant: Pop that drops nothing *)
PopKeepsTail(s) == s

(* line 93: newSnake.pop() *)
Pop(s) == SubSeq(s, 1, Len(s) - 1)

Max(a, b) == IF a >= b THEN a ELSE b

(* faulty variant: NextSpeed with twice the decrement *)
NextSpeedByTen(sp) == Max(sp - 10, 50)

(* faulty variant: NextSpeed without the floor *)
NextSpeedNoFloor(sp) == sp - 5

(* line 88: Math.max(prev - 5, 50) *)
NextSpeed(sp) == Max(sp - 5, 50)

(* faulty variant: NextScore adding 1 *)
NextScoreByOne(sc) == sc + 1

(* line 87: prev + 10 *)
NextScore(sc) == sc + 10

(* lines 23-27: both coordinates are floor(random * GRID_SIZE) *)
(* faulty variant: Math.round for Math.floor, which can yield GRID_SIZE *)
GenerateFoodRounded == FoodCells \cup {[x |-> GRID_SIZE, y |-> 10]}

GenerateFood == {c \in FoodCells : c.x \in 0..(GRID_SIZE - 1) /\ c.y \in 0..(GRID_SIZE - 1)}

----------------------------------------------------------------------------
(* Closures and registrations *)

(* what a render's closures see *)
Snapshot(dir, fd, go, nd, sp) ==
    [direction |-> dir, food |-> fd, gameOver |-> go, nextDirection |-> nd, speed |-> sp]

(* lines 41, 101: the moveSnake of a render, identified by its dependencies *)
MoveSnakeCb(r) ==
    [food |-> r.food, gameOver |-> r.gameOver, nextDirection |-> r.nextDirection,
     speed |-> r.speed]

(* animationFrameId.current = requestAnimationFrame(cb): the ref now names *)
(* the new request only                                                    *)
Request(frs, cb) ==
    {[f EXCEPT !.current = FALSE] : f \in frs} \cup {[cb |-> cb, current |-> TRUE]}

(* faulty variant: a cancel that leaves the request registered *)
CancelNothing(frs) == frs

(* cancelAnimationFrame(animationFrameId.current) *)
Cancel(frs) == {f \in frs : ~f.current}

(* lines 103-137: the effects after a render that replaces the closures of *)
(* render old by those of render new; fresh: the food object is a new one. *)
(* All cleanups run before all setups, in the order of declaration.        *)
DirChanged(old, new) == old.direction # new.direction

MoveSnakeChanged(old, new, fresh) == fresh \/ MoveSnakeCb(old) # MoveSnakeCb(new)

EffectFrames(old, new, fresh, frs) ==
    LET f1 == IF DirChanged(old, new) THEN Cancel(frs) ELSE frs
        f2 == IF MoveSnakeChanged(old, new, fresh) THEN Cancel(f1) ELSE f1
    IN  IF MoveSnakeChanged(old, new, fresh) THEN Request(f2, MoveSnakeCb(new)) ELSE f2

EffectListeners(old, new, kl) ==
    IF DirChanged(old, new) THEN (kl \ {old.direction}) \cup {new.direction} ELSE kl

Current == Snapshot(direction, food, gameOver, nextDirection, speed)

(* a render is pending *)
Dirty == mounted /\ (foodFresh \/ rendered # Current)

Ev(op, kind, d, ok) == [op |-> op, kind |-> kind, d |-> d, ok |-> ok]

----------------------------------------------------------------------------
(* The scheduler of the specification (section 4.3), kept beside the code's *)
(* lastUpdateTime so that the two can be compared: <<>> is "unset".          *)
SpecBaseline(b, T, sp) ==
    IF b = <<>> THEN <<T>>
    ELSE IF T - b[1] >= sp THEN <<T>> ELSE b

----------------------------------------------------------------------------
Init ==
    /\ snake = <<Pos(10, 10)>>
    /\ food = Pos(5, 5)
    /\ direction = "RIGHT"
    /\ nextDirection = "RIGHT"
    /\ gameOver = FALSE
    /\ score = 0
    /\ speed = INITIAL_SPEED
    /\ lastUpdateTime = 0
    /\ rendered = Snapshot("RIGHT", Pos(5, 5), FALSE, "RIGHT", INITIAL_SPEED)
    /\ frames = {[cb |-> MoveSnakeCb(Snapshot("RIGHT", Pos(5, 5), FALSE, "RIGHT", INITIAL_SPEED)),
                  current |-> TRUE]}
    /\ keyListeners = {"RIGHT"}
    /\ foodFresh = FALSE
    /\ mounted = TRUE
    /\ now = 0
    /\ baseline = <<>>
    /\ ev = Ev("init", "none", "RIGHT", FALSE)
    /\ steps = <<>>
    /\ keys = 0
    /\ resets = 0

(* faulty variant: Halted that never returns early *)
HaltedNever(cb) == FALSE

(* line 42: if (gameOver) return, on the flag the callback captured *)
Halted(cb) == cb.gameOver

(* line 44: !lastUpdateTime.current *)
Unset(l) == l = 0

(* faulty variant: TooEarly that never defers a step *)
TooEarlyNever(T, last, sp) == FALSE

(* lines 48-49: elapsed < speed *)
TooEarly(T, last, sp) == T - last < sp

(* A state late in a game, reached from Init by moving, without eating, to *)
(* (0,19), then eating at each of the next 18 steps: nine up column 0 and  *)
(* nine to the right along row 10.  The last step, at LateStart, ate at    *)
(* (9,10), the new food is at (10,10), and the render after it is done.    *)
LateSnake ==
    [i \in 1..19 |-> IF i <= 10 THEN Pos(10 - i, 10) ELSE Pos(0, i)]

InitLate ==
    /\ snake = LateSnake
    /\ food = Pos(10, 10)
    /\ direction = "RIGHT"
    /\ nextDirection = "RIGHT"
    /\ gameOver = FALSE
    /\ score = 180
    /\ speed = 60
    /\ lastUpdateTime = LateStart
    /\ rendered = Snapshot("RIGHT", Pos(10, 10), FALSE, "RIGHT", 60)
    /\ frames = {[cb |-> MoveSnakeCb(Snapshot("RIGHT", Pos(10, 10), FALSE, "RIGHT", 60)),
                  current |-> TRUE]}
    /\ keyListeners = {"RIGHT"}
    /\ foodFresh = FALSE
    /\ mounted = TRUE
    /\ now = LateStart
    /\ baseline = <<LateStart>>
    /\ ev = Ev("render", "none", "RIGHT", FALSE)
    /\ steps = <<LateStart - INITIAL_SPEED, LateStart>>
    /\ keys = 0
    /\ resets = 0

(* the record of the latest two steps after a step at T *)
LatestTwo(st, T) == IF st = <<>> THEN <<T>> ELSE <<st[Len(st)], T>>

(* timestamps the next frame signal may carry *)
FrameTimes == {t \in TimeStamps : t >= now /\ t <= now + MaxGap}

(* lines 56-98: the setSnake updater, run on the current snake with the    *)
(* food and nextDirection the callback captured                            *)
StepWall(cb) == HitsWall(NewHead(snake[1], cb.nextDirection))

(* faulty variant: StepSelf with the food test taking precedence *)
StepSelfUnlessFood(cb) ==
    /\ ~StepWall(cb)
    /\ HitsSelf(snake, NewHead(snake[1], cb.nextDirection))
    /\ NewHead(snake[1], cb.nextDirection) # cb.food

StepSelf(cb) == ~StepWall(cb) /\ HitsSelf(snake, NewHead(snake[1], cb.nextDirection))

StepFood(cb) == ~StepWall(cb) /\ ~StepSelf(cb) /\ NewHead(snake[1], cb.nextDirection) = cb.food

Step(cb) ==
    LET head == NewHead(snake[1], cb.nextDirection)
        newSnake == Prepend(head, snake)
    IN  IF StepWall(cb) \/ StepSelf(cb)
        THEN /\ gameOver' = TRUE
             /\ ev' = Ev("frame", IF StepWall(cb) THEN "wall" ELSE "self", cb.nextDirection, FALSE)
             /\ UNCHANGED <<snake, food, direction, score, speed, foodFresh>>
        ELSE IF StepFood(cb)
        THEN /\ food' \in GenerateFood
             /\ foodFresh' = TRUE
             /\ score' = NextScore(score)
             /\ speed' = NextSpeed(speed)
             /\ direction' = cb.nextDirection
             /\ snake' = newSnake
             /\ ev' = Ev("frame", "food", cb.nextDirection, TRUE)
             /\ UNCHANGED gameOver
        ELSE /\ snake' = Pop(newSnake)
             /\ direction' = cb.nextDirection
             /\ ev' = Ev("frame", "move", cb.nextDirection, TRUE)
             /\ UNCHANGED <<food, foodFresh, score, speed, gameOver>>

(* lines 41-101: the browser runs a registered moveSnake with timestamp T. *)
(* A callback that has run is no longer registered; it registers itself    *)
(* again at line 50 or 100 unless it returned at line 42.  Updates made    *)
(* here are rendered by Render before the next frame signal is delivered.  *)
MoveSnake(T) ==
    /\ mounted
    /\ ~Dirty
    /\ T \in FrameTimes
    /\ \E f \in frames :
        LET cb == f.cb
            rest == frames \ {f}
            last == IF Unset(lastUpdateTime) THEN T ELSE lastUpdateTime
        IN  /\ now' = T
            /\ IF Halted(cb)
               THEN /\ frames' = rest
                    /\ ev' = Ev("frame", "over", cb.nextDirection, FALSE)
                    /\ UNCHANGED <<game, lastUpdateTime, foodFresh, baseline, steps>>
               ELSE /\ baseline' = SpecBaseline(baseline, T, cb.speed)
                    /\ frames' = Request(rest, cb)
                    /\ IF TooEarly(T, last, cb.speed)
                       THEN /\ lastUpdateTime' = last
                            /\ ev' = Ev("frame", "wait", cb.nextDirection, FALSE)
                            /\ UNCHANGED <<game, foodFresh, steps>>
                       ELSE /\ lastUpdateTime' = T
                            /\ steps' = LatestTwo(steps, T)
                            /\ nextDirection' = nextDirection
                            /\ Step(cb)
    /\ UNCHANGED <<keyListeners, rendered, mounted, keys, resets>>

(* React renders the updates a frame callback made and runs the effects *)
Render ==
    /\ Dirty
    /\ rendered' = Current
    /\ foodFresh' = FALSE
    /\ frames' = EffectFrames(rendered, Current, foodFresh, frames)
    /\ keyListeners' = EffectListeners(rendered, Current, keyListeners)
    /\ ev' = Ev("render", "none", direction, FALSE)
    /\ UNCHANGED <<game, lastUpdateTime, mounted, now, baseline, steps, keys, resets>>

(* the state a handler leaves is rendered and the effects run, all within *)
(* the handler's task                                                      *)
RenderNow(dir, fd, go, nd, sp, fresh) ==
    /\ rendered' = Snapshot(dir, fd, go, nd, sp)
    /\ foodFresh' = FALSE
    /\ frames' = EffectFrames(rendered, Snapshot(dir, fd, go, nd, sp), fresh, frames)
    /\ keyListeners' = EffectListeners(rendered, Snapshot(dir, fd, go, nd, sp), keyListeners)

(* faulty variant: Accepts without the reversal test *)
AcceptsAny(captured, d) == TRUE

(* lines 106-117, 273-292: direction !== opposite of the requested one *)
Accepts(captured, d) == captured # Opposite(d)

(* lines 104-119: a keydown reaches the registered listener, which checks *)
(* the direction it captured                                               *)
HandleKeyDown(d) ==
    /\ mounted
    /\ keys < MaxKeys
    /\ keys' = keys + 1
    /\ \E captured \in keyListeners :
        LET nd == IF Accepts(captured, d) THEN d ELSE nextDirection
        IN  /\ nextDirection' = nd
            /\ ev' = Ev("key", "none", d, Accepts(captured, d))
            /\ RenderNow(direction, food, gameOver, nd, speed, foodFresh)
    /\ UNCHANGED <<snake, food, direction, gameOver, score, speed, lastUpdateTime,
                   mounted, now, baseline, steps, resets>>

(* lines 271-295: an on-screen button, whose onClick captured the          *)
(* direction of the last render                                            *)
ClickDirection(d) ==
    /\ mounted
    /\ keys < MaxKeys
    /\ keys' = keys + 1
    /\ LET nd == IF Accepts(rendered.direction, d) THEN d ELSE nextDirection
       IN  /\ nextDirection' = nd
           /\ ev' = Ev("click", "none", d, Accepts(rendered.direction, d))
           /\ RenderNow(direction, food, gameOver, nd, speed, foodFresh)
    /\ UNCHANGED <<snake, food, direction, gameOver, score, speed, lastUpdateTime,
                   mounted, now, baseline, steps, resets>>

(* faulty variant: ResetGame without lastUpdateTime.current = 0 *)
ResetGameKeepsBaseline ==
    /\ mounted
    /\ resets < MaxResets
    /\ resets' = resets + 1
    /\ snake' = <<Pos(10, 10)>>
    /\ food' \in GenerateFood
    /\ direction' = "RIGHT"
    /\ nextDirection' = "RIGHT"
    /\ gameOver' = FALSE
    /\ score' = 0
    /\ speed' = INITIAL_SPEED
    /\ ev' = Ev("reset", "none", "RIGHT", FALSE)
    /\ RenderNow("RIGHT", food', FALSE, "RIGHT", INITIAL_SPEED, TRUE)
    /\ UNCHANGED <<lastUpdateTime, baseline, mounted, now, steps, keys>>

(* lines 29-39 *)
ResetGame ==
    /\ mounted
    /\ resets < MaxResets
    /\ resets' = resets + 1
    /\ snake' = <<Pos(10, 10)>>
    /\ food' \in GenerateFood
    /\ direction' = "RIGHT"
    /\ nextDirection' = "RIGHT"
    /\ gameOver' = FALSE
    /\ score' = 0
    /\ speed' = INITIAL_SPEED
    /\ lastUpdateTime' = 0
    /\ baseline' = <<>>
    /\ ev' = Ev("reset", "none", "RIGHT", FALSE)
    /\ RenderNow("RIGHT", food', FALSE, "RIGHT", INITIAL_SPEED, TRUE)
    /\ UNCHANGED <<mounted, now, steps, keys>>

(* lines 122-127, 132-136: the component unmounts and both cleanups run *)
Unmount ==
    /\ mounted
    /\ mounted' = FALSE
    /\ keyListeners' = keyListeners \ {rendered.direction}
    /\ frames' = Cancel(Cancel(frames))
    /\ ev' = Ev("unmount", "none", direction, FALSE)
    /\ UNCHANGED <<game, lastUpdateTime, rendered, foodFresh, now, baseline, steps, keys, resets>>

Next ==
    \/ \E T \in TimeStamps : MoveSnake(T)
    \/ Render
    \/ \E d \in Direction : HandleKeyDown(d)
    \/ \E d \in Direction : ClickDirection(d)
    \/ ResetGame
    \/ Unmount

Spec == Init /\ [][Next]_vars

(* the same program, started from Init or from the late-game state *)
SpecDeep == (Init \/ InitLate) /\ [][Next]_vars

----------------------------------------------------------------------------
(* Vocabulary of the properties.  These definitions restate the rules in   *)
(* their own terms and use none of the operators above that model code.    *)

StepKinds == {"wall", "self", "food", "move"}

(* the transition is a frame callback that took a step *)
Stepped == ev'.op = "frame" /\ ev'.kind \in StepKinds

InGrid(p) == p.x \in 0..(GRID_SIZE - 1) /\ p.y \in 0..(GRID_SIZE - 1)

Offset(p, d) ==
    IF d = "UP" THEN [x |-> p.x, y |-> p.y - 1]
    ELSE IF d = "DOWN" THEN [x |-> p.x, y |-> p.y + 1]
    ELSE IF d = "LEFT" THEN [x |-> p.x - 1, y |-> p.y]
    ELSE [x |-> p.x + 1, y |-> p.y]

Opp(d) ==
    IF d = "UP" THEN "DOWN"
    ELSE IF d = "DOWN" THEN "UP"
    ELSE IF d = "LEFT" THEN "RIGHT"
    ELSE "LEFT"

OnSnake(p) == \E i \in 1..Len(snake) : snake[i] = p

(* the head the step about to be taken would move to *)
Target == Offset(snake[1], nextDirection)

Abs(n) == IF n < 0 THEN -n ELSE n

Dist(p, q) == Abs(p.x - q.x) + Abs(p.y - q.y)

----------------------------------------------------------------------------
(* C1: in every reachable state the snake has at least one segment and     *)
(* every segment's x and y lie in [0, GRID_SIZE).                           *)
C1_InGrid == Len(snake) >= 1 /\ \A i \in 1..Len(snake) : InGrid(snake[i])

(* a step was refused at the right wall: the head is in the last column *)
C1_Witness ==
    /\ ev.op = "frame" /\ ev.kind = "wall"
    /\ snake[1].x = GRID_SIZE - 1

(* C2: in every reachable state no two snake segments occupy the same      *)
(* position.                                                                *)
C2_Distinct ==
    \A i \in 1..Len(snake) : \A j \in 1..Len(snake) : snake[i] = snake[j] => i = j

(* a step onto the snake's own body was refused, the snake has >= 3 cells *)
C2_Witness ==
    /\ ev.op = "frame" /\ ev.kind = "self"
    /\ Len(snake) >= 3

(* C3: once gameOver is true, a frame signal changes none of snake, food,  *)
(* score, speed, direction, nextDirection, gameOver; and gameOver becomes  *)
(* false again only through resetGame.                                      *)
C3_TerminalAbsorbing ==
    [][gameOver =>
        /\ (ev'.op = "frame" => UNCHANGED game)
        /\ (~gameOver' => ev'.op = "reset")]_vars

(* a frame signal was delivered in the terminal state *)
C3_Witness == gameOver /\ ev.op = "frame" /\ ev.kind = "over"

(* C4: the frame callback follows the scheduler rule of the specification  *)
(* for every timestamp sequence: it takes a step exactly when a baseline   *)
(* is set and T - baseline >= speed, and after the callback the recorded   *)
(* baseline (lastUpdateTime) is the specification's baseline.              *)
C4_BaselineRule ==
    [][(ev'.op = "frame" /\ ev'.kind # "over") =>
        /\ (ev'.kind \in StepKinds) <=> (baseline # <<>> /\ now' - baseline[1] >= speed)
        /\ lastUpdateTime' = baseline'[1]]_vars

(* C5: while the game is running and the component is mounted, once the    *)
(* pending render has completed a frame callback is registered.            *)
C5_FrameRegistered == (mounted /\ ~gameOver /\ ~Dirty) => frames # {}

(* C6: a direction request for d stores d as nextDirection exactly when d  *)
(* is not the opposite of the committed direction, and changes nothing     *)
(* else of the game state.                                                  *)
C6_RequestRule ==
    [][ev'.op \in {"key", "click"} =>
        /\ nextDirection' = IF ev'.d # Opp(direction) THEN ev'.d ELSE nextDirection
        /\ UNCHANGED <<snake, food, score, speed, direction, gameOver>>]_vars

(* C7: in every reachable state the pending direction is not the opposite  *)
(* of the committed direction.                                              *)
C7_NoReversalPending == nextDirection # Opp(direction)

(* C8: a step whose new head is the food cell (inside the grid, not on the *)
(* snake) prepends the head without dropping a segment, adds 10 to the     *)
(* score, sets speed to max(speed - 5, 50) and stores a food cell inside   *)
(* the grid.                                                                *)
C8_GrowthLaw ==
    [][(Stepped /\ InGrid(Target) /\ ~OnSnake(Target) /\ Target = food) =>
        /\ snake' = <<Target>> \o snake
        /\ Len(snake') = Len(snake) + 1
        /\ score' = score + 10
        /\ speed' = (IF speed - 5 >= 50 THEN speed - 5 ELSE 50)
        /\ InGrid(food')]_vars

(* food was just eaten at the floor: speed was 50 and stays 50 *)
C8_Witness ==
    /\ ev.op = "frame" /\ ev.kind = "food"
    /\ Len(snake) = 22 /\ score = 210 /\ speed = 50

(* C9 as stated: a step that neither collides nor eats keeps the length    *)
(* and moves every segment one cell in the committed direction.            *)
C9_AllSegmentsShift ==
    [][(Stepped /\ InGrid(Target) /\ ~OnSnake(Target) /\ Target # food) =>
        /\ Len(snake') = Len(snake)
        /\ \A i \in 1..Len(snake) : snake'[i] = Offset(snake[i], direction')]_vars

(* C9 as amended: such a step keeps the length, moves the head one cell in *)
(* the committed direction, and moves every other segment one cell, onto   *)
(* the cell the segment before it occupied.                                *)
C9_NoFoodLaw ==
    [][(Stepped /\ InGrid(Target) /\ ~OnSnake(Target) /\ Target # food) =>
        /\ Len(snake') = Len(snake)
        /\ direction' = nextDirection
        /\ snake'[1] = Offset(snake[1], direction')
        /\ \A i \in 2..Len(snake) : snake'[i] = snake[i - 1]
        /\ \A i \in 1..Len(snake) : Dist(snake'[i], snake[i]) = 1]_vars

(* a bent snake of at least three segments has just moved without eating *)
C9_Witness ==
    /\ ev.op = "frame" /\ ev.kind = "move"
    /\ Len(snake) >= 3
    /\ snake[1].x # snake[3].x /\ snake[1].y # snake[3].y

(* C10: a step whose new head lies outside the grid sets gameOver and      *)
(* leaves snake, food, score and speed as they were.                       *)
C10_WallCollision ==
    [][(Stepped /\ ~InGrid(Target)) =>
        /\ gameOver'
        /\ UNCHANGED <<snake, food, score, speed>>]_vars

(* the head stood at (19,10), moved RIGHT and the game ended *)
C10_Witness ==
    /\ ev.op = "frame" /\ ev.kind = "wall" /\ ev.d = "RIGHT"
    /\ gameOver
    /\ snake[1] = [x |-> GRID_SIZE - 1, y |-> 10]

(* C11: a step whose new head lies on any segment of the pre-move snake,   *)
(* the last one included, sets gameOver and leaves snake, food, score and  *)
(* speed as they were, also when that cell holds the food.                 *)
C11_SelfCollision ==
    [][(Stepped /\ InGrid(Target) /\ OnSnake(Target)) =>
        /\ gameOver'
        /\ UNCHANGED <<snake, food, score, speed>>]_vars

(* a step onto the last segment, which also held the food, was refused *)
C11_Witness ==
    /\ ev.op = "frame" /\ ev.kind = "self"
    /\ gameOver
    /\ Len(snake) >= 2
    /\ Offset(snake[1], ev.d) = snake[Len(snake)]
    /\ food = snake[Len(snake)]

(* C12: resetGame, from whatever state, leaves snake = <<(10,10)>>, both   *)
(* directions RIGHT, gameOver false, score 0, speed 150, the baseline      *)
(* unset and the food inside the grid.                                      *)
C12_ResetConfig ==
    ev.op = "reset" =>
        /\ snake = <<[x |-> 10, y |-> 10]>>
        /\ direction = "RIGHT" /\ nextDirection = "RIGHT"
        /\ gameOver = FALSE
        /\ score = 0
        /\ speed = 150
        /\ lastUpdateTime = 0
        /\ InGrid(food)

(* a reset at or after LateStart: the state before it had a snake of 19 or *)
(* more segments, score >= 180 and speed <= 60                              *)
C12_Witness == ev.op = "reset" /\ now > LateStart

(* C13: once gameOver is set, only resetGame changes any of snake, food,   *)
(* direction, nextDirection, gameOver, score, speed.                        *)
C13_TerminalFrozen ==
    [][(gameOver /\ ev'.op # "reset") => UNCHANGED game]_vars

(* C14: a frame callback takes at most one step, however long since the   *)
(* baseline, and a step comes at least speed after the step before it,     *)
(* resets and direction requests in between included.                      *)
C14_OneStepPerInterval ==
    [][Stepped =>
        /\ Len(snake') <= Len(snake) + 1
        /\ Dist(snake'[1], snake[1]) <= 1
        /\ score' <= score + 10
        /\ (steps # <<>> => now' - steps[Len(steps)] >= speed)]_vars

(* two intervals after the first step the second step was taken: the head *)
(* is two cells from the start, not three                                  *)
C14_Witness ==
    /\ ev.op = "frame" /\ ev.kind = "move"
    /\ Len(steps) = 2 /\ steps[2] - steps[1] >= 2 * INITIAL_SPEED
    /\ resets = 0
    /\ snake = <<[x |-> 12, y |-> 10]>>

(* C15: once the component is unmounted and both cleanups have run, no     *)
(* frame callback and no key handler stays registered, whichever of line   *)
(* 50, line 100 or the effect wrote the frame id last.                     *)
C15_TeardownComplete == ~mounted => (frames = {} /\ keyListeners = {})

(* unmounted right after a step, before its render: the frame id was       *)
(* written by line 100 of a callback the effects never saw                 *)
C15_Witness ==
    /\ ~mounted /\ ev.op = "unmount"
    /\ ~gameOver /\ Len(steps) = 2
    /\ rendered # Current

(* a state change that respawns the food: a step that eats, or a reset *)
Respawned == (Stepped /\ ev'.kind = "food") \/ ev'.op = "reset"

(* C16 as stated: at every respawn, after food is eaten and on reset, the  *)
(* new food position is distinct from every segment of the snake.          *)
C16_RespawnOffSnake == [][Respawned => ~OnSnake(food)']_vars

(* C16 as the code has it: at every respawn the new food position is a     *)
(* cell of the grid, drawn with no regard to the cells the snake occupies. *)
C16_RespawnInGrid == [][Respawned => InGrid(food')]_vars

(* the snake ate and the new food lies under one of its segments *)
C16_Witness ==
    /\ ev.op = "frame" /\ ev.kind = "food"
    /\ OnSnake(food) /\ food # snake[1]

(* C17: a step that hits neither wall nor body uses the direction pending  *)
(* when it started: the new snake is the old head offset by one cell in    *)
(* that direction, followed by the old segments in order, less the last    *)
(* one when no food is eaten; the committed direction becomes the pending. *)
C17_StepUsesPending ==
    [][(Stepped /\ ~gameOver /\ InGrid(Target) /\ ~OnSnake(Target)) =>
        /\ snake' = IF Target = food
                    THEN <<Target>> \o snake
                    ELSE <<Target>> \o SubSeq(snake, 1, Len(snake) - 1)
        /\ direction' = nextDirection
        /\ ~gameOver']_vars

(* a turn was taken by a snake of two or more segments: the pending UP     *)
(* became the committed direction and the head went one cell up            *)
C17_Witness ==
    /\ ev.op = "frame" /\ ev.kind = "move" /\ ev.d = "UP"
    /\ direction = "UP" /\ Len(snake) >= 2
    /\ snake[1] = Offset(snake[2], "UP")

(* C18: in every reachable state the score is a non-negative multiple of   *)
(* 10 and the snake has one segment more than tens in the score.           *)
C18_ScoreLength ==
    /\ score >= 0
    /\ score % 10 = 0
    /\ Len(snake) = 1 + score \div 10

(* two foods eaten since the start or the last reset *)
C18_Witness == score = 20 /\ Len(snake) = 3 /\ ev.op = "frame" /\ ev.kind = "food"

(* the tick interval the score determines *)
IntervalOf(sc) == IF 150 - 5 * (sc \div 10) >= 50 THEN 150 - 5 * (sc \div 10) ELSE 50

(* C19: in every reachable state the tick interval is                      *)
(* max(150 - 5 * (score / 10), 50), hence between 50 and 150, and only a   *)
(* reset ever increases it.                                                *)
C19_IntervalLaw ==
    /\ [](speed = IntervalOf(score) /\ speed >= 50 /\ speed <= 150)
    /\ [][speed' > speed => ev'.op = "reset"]_vars

(* the floor is in force past the score at which the formula reaches it,   *)
(* after one more food                                                     *)
C19_Witness ==
    /\ speed = 50 /\ score >= 210
    /\ ev.op = "frame" /\ ev.kind = "food"

(* C20: in every reachable state the snake is contiguous: consecutive      *)
(* segments, head to tail, differ by exactly 1 in exactly one coordinate.  *)
C20_Contiguous ==
    \A i \in 1..(Len(snake) - 1) :
        \/ (snake[i].x = snake[i + 1].x /\ Abs(snake[i].y - snake[i + 1].y) = 1)
        \/ (snake[i].y = snake[i + 1].y /\ Abs(snake[i].x - snake[i + 1].x) = 1)

(* a long snake that has eaten and then turned down: it runs along columns *)
(* and along rows                                                          *)
C20_Witness ==
    /\ ev.op = "frame" /\ ev.kind = "move" /\ ev.d = "DOWN"
    /\ Len(snake) >= 20
    /\ snake[1].y = snake[2].y + 1
    /\ snake[2].x = snake[3].x + 1

====
